---- MODULE Spec2Model ----
(***************************************************************************)
(* Model of the host agent's concurrent runtime: the supervisor's startup  *)
(* sequence (agent/main.py), the command loop, the health loop and the     *)
(* duration monitor (agent/core/monitoring.py), the deployment engine      *)
(* (agent/core/deployment.py) and the local store                          *)
(* (agent/core/database.py).                                               *)
(*                                                                         *)
(* The loops are asyncio tasks on one event loop.  A task is suspended     *)
(* only at an await of a store call or of asyncio.sleep; subprocess.run    *)
(* and requests.* are blocking calls, so the code between two awaits runs  *)
(* without interleaving.  Each action below is one such segment, ending    *)
(* with the store statement it awaits.                                     *)
(*                                                                         *)
(* The container runtime resolves a reference by container id, by id       *)
(* prefix or by exact name.  deploy_container names the container          *)
(* "deployment-<id>" but cleanup_failed_deployment, configure_container,   *)
(* verify_container_health and cleanup_orphaned_deployments refer to it by *)
(* the bare "<id>".  Such a reference reaches the container only when the  *)
(* bare id happens to be a prefix of the container id the runtime chose;   *)
(* the field byId of a container records that.  The name filter of         *)
(* "docker ps --filter name=<id>" is a substring match and always finds    *)
(* the container.                                                          *)
(***************************************************************************)
EXTENDS Integers, Sequences, FiniteSets, TLC

\* ---------------------------------------------------------------- bounds
MaxTime == 1
MaxCommands == 2
MaxRuns == 2
MaxBatch == 2

\* ------------------------------------------------------------- constants
NoneVal == "None"

GpuId == "gpu-0"

Ids == {"d1", "d2"}

Durations == {1}

Reasons == {"user_requested", "duration_expired"}

Tasks == {"main", "cmd", "sweep", "health", "sample", "heartbeat",
          "metrics_push", "health_push"}

\* the loops that only sample, report and push
TelemetryTasks == {"sample", "heartbeat", "metrics_push", "health_push"}

EngineTasks == {"cmd", "sweep"}

NonTerminal == {"deploying", "running", "terminating"}

Terminal == {"terminated", "completed", "failed"}

ContainerIdOf(d) == IF d = "d1" THEN "cid-1" ELSE "cid-2"

NoCmd == [command_id |-> NoneVal, command_type |-> NoneVal,
          deployment_id |-> NoneVal, reason |-> NoneVal, duration_minutes |-> 0]

DeployCommands == {[command_id |-> d, command_type |-> "deploy",
                    deployment_id |-> NoneVal, reason |-> NoneVal,
                    duration_minutes |-> m] : d \in Ids, m \in Durations}

TerminateCommands == {[command_id |-> "t1", command_type |-> "terminate",
                       deployment_id |-> d, reason |-> r,
                       duration_minutes |-> 0] : d \in Ids, r \in Reasons}

UnknownCommands == {[command_id |-> "x1", command_type |-> "reboot",
                     deployment_id |-> NoneVal, reason |-> NoneVal,
                     duration_minutes |-> 0]}

Commands == DeployCommands \cup TerminateCommands \cup UnknownCommands

CommandIds == {c.command_id : c \in Commands}

Batches == UNION {[1..n -> Commands] : n \in 1..MaxBatch}

\* the replies of a server that only rents the slot out: the deployments end
\* when their duration is over
DeployBatches == UNION {[1..n -> DeployCommands] : n \in 1..MaxBatch}

NoTerm == [deployment_id |-> NoneVal, container_id |-> NoneVal, reason |-> NoneVal,
           again |-> FALSE]

EmptyTable == [x \in {} |-> NoneVal]

\* network.ports of the configuration, as the text of the port numbers
ConfigPorts == [ssh |-> "2222", rental_port_1 |-> "8888", rental_port_2 |-> "9999"]

\* gpu_utilization values collect_gpu_metrics returns, as decimal text
Metrics == {"87.5"}

\* the process has not exited
NoExit == -1


VARIABLES
    gpu_status,     \* table gpu_status: gpu_id -> row
    deployments,    \* table deployments: deployment_id -> row
    containers,     \* runtime: d -> state of the container named deployment-<d>
    now,            \* wall clock, in minutes
    pc,             \* position of each task
    batch,          \* commands of the current poll not yet processed
    cmd,            \* command process_command is working on
    outcome,        \* how the dispatch of cmd ended: "ok", or the exception raised
    acked,          \* acknowledge_command was called for cmd
    term,           \* arguments of terminate_deployment, per calling task
    todo,           \* rows a task still iterates over
    acks,           \* acknowledgements sent per command id in this run
    finished,       \* deployments for which a terminate_deployment call returned
    received,       \* commands the server has handed out
    runs,           \* agent runs started
    health_data,    \* health_status of the last sample of the health loop
    notified,       \* deployments the server got a success notification for
    pushed,         \* the last request of a periodic loop the server received
    exit_code,      \* exit code of the agent process, NoExit while it runs
    listed,         \* the reply of the last poll while commands of it wait, else <<>>
    gates,          \* how verify_container_health ended in the current deploy_container
    db_pool         \* the connection pool of the store, NoneVal while there is none

vars == <<gpu_status, deployments, containers, now, pc, batch, cmd, outcome,
          acked, term, todo, acks, finished, received, runs, health_data,
          notified, pushed, exit_code, listed, gates, db_pool>>

locals == <<batch, cmd, outcome, acked, term, todo, acks, finished, received,
            health_data, notified, pushed, exit_code, listed, gates, db_pool>>

\* ------------------------------------------------------------ the store

\* what init_database assigns to db_pool
Pool == "pool"

\* kwargs whose value is None are left out of the UPDATE statement
NullableColumns == {"status", "current_deployment_id", "gpu_uuid",
                    "gpu_utilization", "container_id", "ssh_username",
                    "ssh_password"}

IsNotNone(key, value) == ~(key \in NullableColumns /\ value = NoneVal)

SetClauses(kwargs) == {k \in DOMAIN kwargs : IsNotNone(k, kwargs[k])}

update_gpu_status(table, gpu_id, kwargs) ==
    IF db_pool = NoneVal THEN table
    ELSE IF gpu_id \in DOMAIN table
    THEN [table EXCEPT ![gpu_id] =
            [f \in DOMAIN @ |-> IF f \in SetClauses(kwargs) THEN kwargs[f] ELSE @[f]]]
    ELSE table

update_deployment_status(table, deployment_id, status, kwargs) ==
    IF db_pool = NoneVal THEN table
    ELSE IF deployment_id \in DOMAIN table
    THEN [table EXCEPT ![deployment_id] =
            [f \in DOMAIN @ |-> IF f = "status" THEN status
                                ELSE IF f \in SetClauses(kwargs) THEN kwargs[f]
                                ELSE @[f]]]
    ELSE table

create_deployment(table, data) ==
    [d \in DOMAIN table \cup {data.deployment_id} |->
        IF d = data.deployment_id
        THEN [status |-> data.status, container_id |-> NoneVal,
              ssh_username |-> NoneVal, ssh_password |-> NoneVal,
              ssh_port |-> data.ssh_port,
              rental_port_1 |-> data.rental_port_1,
              rental_port_2 |-> data.rental_port_2,
              start_time |-> data.start_time,
              duration_minutes |-> data.duration_minutes]
        ELSE table[d]]

get_expired_deployments ==
    {[deployment_id |-> d, container_id |-> deployments[d].container_id] :
        d \in {e \in DOMAIN deployments :
                 /\ db_pool # NoneVal
                 /\ deployments[e].status = "running"
                 /\ now >= deployments[e].start_time + deployments[e].duration_minutes
                 /\ GpuId \in DOMAIN gpu_status}}

\* INSERT ... ON CONFLICT (gpu_uuid) DO UPDATE: a row with the same uuid keeps
\* its current_deployment_id and consecutive_failures
store_gpu_status(table, gpu_data) ==
    IF gpu_data.gpu_id \in DOMAIN table
    THEN IF table[gpu_data.gpu_id].gpu_uuid = gpu_data.gpu_uuid
         THEN [table EXCEPT ![gpu_data.gpu_id].status = gpu_data.status,
                            ![gpu_data.gpu_id].is_healthy = gpu_data.is_healthy]
         ELSE table
    ELSE [g \in DOMAIN table \cup {gpu_data.gpu_id} |->
            IF g = gpu_data.gpu_id
            THEN [gpu_uuid |-> gpu_data.gpu_uuid, status |-> gpu_data.status,
                  is_healthy |-> gpu_data.is_healthy,
                  gpu_utilization |-> NoneVal,
                  current_deployment_id |-> NoneVal, consecutive_failures |-> 0]
            ELSE table[g]]

\* ---------------------------------------------------------------- Init
Init ==
    /\ gpu_status = EmptyTable
    /\ deployments = EmptyTable
    /\ containers = EmptyTable
    /\ now = 0
    /\ pc = [t \in Tasks |-> IF t = "main" THEN "config" ELSE "off"]
    /\ batch = <<>>
    /\ cmd = NoCmd
    /\ outcome = "none"
    /\ acked = FALSE
    /\ term = [t \in EngineTasks |-> NoTerm]
    /\ todo = [t \in {"main", "sweep"} |-> {}]
    /\ acks = [c \in CommandIds |-> 0]
    /\ finished = {}
    /\ received = 0
    /\ runs = 1
    /\ health_data = NoneVal
    /\ notified = {}
    /\ pushed = "none"
    /\ exit_code = NoExit
    /\ listed = <<>>
    /\ gates = "none"
    /\ db_pool = NoneVal

\* ------------------------------------------------------------- startup

\* the steps of TAOLIEHostAgent.start before register_gpu, in the order start
\* runs them, and the position each one is run at
StartupSteps == <<"config", "network", "store", "agent", "gpu_info", "register">>

\* the position start() is at once step i has returned
AfterStep(i) == StartupSteps[i + 1]

\* main: start() raised, "except Exception: sys.exit(1)", then agent.stop()
\* closes the store
AbortStartup ==
    /\ pc' = [pc EXCEPT !["main"] = "exited"]
    /\ exit_code' = 1
    /\ db_pool' = NoneVal

\* one of load_config and validate_config, test_network_config, init_database,
\* generate_agent_id, collect_system_info: it returns or it raises
startup_step(i, ok) ==
    /\ i \in 1..(Len(StartupSteps) - 1)
    /\ pc["main"] = StartupSteps[i]
    /\ IF ok
       THEN /\ pc' = [pc EXCEPT !["main"] = AfterStep(i)]
            /\ db_pool' = IF StartupSteps[i] = "store" THEN Pool ELSE db_pool
            /\ UNCHANGED exit_code
       ELSE AbortStartup
    /\ UNCHANGED <<gpu_status, deployments, containers, now, runs>>
    /\ UNCHANGED <<batch, cmd, outcome, acked, term, todo, acks, finished, received,
                 health_data, notified, pushed,
                 listed, gates>>

\* register_gpu without the test of the stored uuid
AlreadyRegistered_Unchecked(table) == FALSE

\* register_gpu: "if gpu_status and gpu_status.get('gpu_uuid')"
AlreadyRegistered(table) ==
    GpuId \in DOMAIN table /\ table[GpuId].gpu_uuid # NoneVal

\* TAOLIEHostAgent.register_gpu up to the call of the server: the stored uuid
\* is adopted, or the registration payload is collected
register_gpu ==
    /\ pc["main"] = "register"
    /\ IF AlreadyRegistered(gpu_status)
       THEN pc' = [pc EXCEPT !["main"] = "orphans"]
       ELSE pc' = [pc EXCEPT !["main"] = "r_post"]
    /\ UNCHANGED <<gpu_status, deployments, containers, now, runs>>
    /\ UNCHANGED locals

\* TAOLIEHostAgent.register_gpu: register_with_server and store_gpu_status; a
\* failed registration aborts start()
register_with_server(ok) ==
    /\ pc["main"] = "r_post"
    /\ IF ok
       THEN /\ gpu_status' = store_gpu_status(gpu_status,
                   [gpu_id |-> GpuId, gpu_uuid |-> "gpu-abc",
                    status |-> "available", is_healthy |-> TRUE])
            /\ pc' = [pc EXCEPT !["main"] = "orphans"]
            /\ UNCHANGED <<exit_code, db_pool>>
       ELSE /\ AbortStartup
            /\ UNCHANGED gpu_status
    /\ UNCHANGED <<deployments, containers, now, runs>>
    /\ UNCHANGED <<batch, cmd, outcome, acked, term, todo, acks, finished, received,
                 health_data, notified, pushed,
                 listed, gates>>

\* ------------------------------------------------------------- runtime

\* the container a docker command given a full container id acts on
ResolveById(cid) == {d \in DOMAIN containers : ContainerIdOf(d) = cid}

\* the container a docker command given the bare deployment id acts on
ResolveByDeploymentId(d) == {c \in DOMAIN containers : c = d /\ containers[c].byId}

\* "docker ps -a --filter name=<d>": substring match on the container name
PsAllFilterName(d) == d \in DOMAIN containers

\* "docker ps --filter name=<d>": running containers only
PsFilterName(d) == d \in DOMAIN containers /\ containers[d].running

Without(f, S) == [x \in DOMAIN f \ S |-> f[x]]

Stopped(f, S) == [x \in DOMAIN f |-> IF x \in S THEN [f[x] EXCEPT !.running = FALSE] ELSE f[x]]

\* TAOLIEHostAgent.cleanup_orphaned_deployments, the query
cleanup_orphans_query ==
    /\ pc["main"] = "orphans"
    /\ todo' = [todo EXCEPT !["main"] = get_expired_deployments]
    /\ pc' = [pc EXCEPT !["main"] = "orphan_loop"]
    /\ UNCHANGED <<gpu_status, deployments, containers, now, runs>>
    /\ UNCHANGED <<batch, cmd, outcome, acked, term, acks, finished, received,
                 health_data, notified, pushed, exit_code,
                 listed, gates, db_pool>>

\* TAOLIEHostAgent.cleanup_orphaned_deployments, one iteration of the for loop
cleanup_orphan_item(row, r) ==
    /\ pc["main"] = "orphan_loop"
    /\ row \in todo["main"]
    /\ LET d == row.deployment_id
           target == ResolveByDeploymentId(d)
           isRunning == target # {} /\ containers[d].running
       IN IF r = "timeout"
          THEN /\ todo' = [todo EXCEPT !["main"] = {}]
               /\ pc' = [pc EXCEPT !["main"] = "orphans_error"]
               /\ UNCHANGED <<deployments, containers>>
          ELSE /\ todo' = [todo EXCEPT !["main"] = @ \ {row}]
               /\ UNCHANGED pc
               /\ IF PsAllFilterName(d) /\ isRunning
                  THEN UNCHANGED <<deployments, containers>>
                  ELSE /\ containers' = IF PsAllFilterName(d) /\ r = "ok"
                                        THEN Without(containers,
                                                {c \in target : ~containers[c].running})
                                        ELSE containers
                       /\ deployments' = update_deployment_status(deployments, d,
                                                "failed", <<>>)
    /\ UNCHANGED <<gpu_status, now, runs>>
    /\ UNCHANGED <<batch, cmd, outcome, acked, term, acks, finished, received,
                 health_data, notified, pushed, exit_code,
                 listed, gates, db_pool>>

\* the position a loop starts at when its task is created
LoopEntry(t) == IF t = "cmd" THEN "poll" ELSE IF t = "sweep" THEN "s_query" ELSE "tick"

\* the loops without their try block: an exception ends the task
OnLoopError_Uncaught(t) == "off"

\* the loops of monitoring.py, "except Exception as e: logger.error(...)" inside
\* "while True": the position of loop t once an iteration has raised
OnLoopError(t) == LoopEntry(t)

\* cleanup_orphaned_deployments has returned: its loop is over, or its except
\* clause has logged the exception
OrphansReturned ==
    \/ pc["main"] = "orphan_loop" /\ todo["main"] = {}
    \/ pc["main"] = "orphans_error"

\* TAOLIEHostAgent.start_monitoring_threads
start_monitoring_threads ==
    /\ OrphansReturned
    /\ pc' = [t \in Tasks |-> IF t = "main" THEN "running" ELSE LoopEntry(t)]
    /\ UNCHANGED <<gpu_status, deployments, containers, now, runs>>
    /\ UNCHANGED locals

\* the agent process dies (crash, kill, reboot) and is started again; the
\* store and the runtime outlive it
Restart ==
    /\ runs < MaxRuns
    /\ runs' = runs + 1
    /\ pc' = [t \in Tasks |-> IF t = "main" THEN "config" ELSE "off"]
    /\ batch' = <<>>
    /\ cmd' = NoCmd
    /\ outcome' = "none"
    /\ acked' = FALSE
    /\ term' = [t \in EngineTasks |-> NoTerm]
    /\ todo' = [t \in {"main", "sweep"} |-> {}]
    /\ acks' = [c \in CommandIds |-> 0]
    /\ health_data' = NoneVal
    /\ exit_code' = NoExit
    /\ listed' = <<>>
    /\ gates' = "none"
    /\ db_pool' = NoneVal
    /\ UNCHANGED <<gpu_status, deployments, containers, now, finished, received,
                 notified, pushed>>

\* ---------------------------------------------------------- environment

\* a minute passes
Tick ==
    /\ now < MaxTime
    /\ now' = now + 1
    /\ UNCHANGED <<gpu_status, deployments, containers, pc, runs>>
    /\ UNCHANGED locals

\* the tenant's main process ends and its container stops
ContainerExits(d) ==
    /\ d \in DOMAIN containers
    /\ containers[d].running
    /\ containers' = Stopped(containers, {d})
    /\ UNCHANGED <<gpu_status, deployments, now, pc, runs>>
    /\ UNCHANGED locals

\* ---------------------------------------------------------- health loop

\* every sample that is not unhealthy resets the counter
FailuresAfter_ResetOnWarning(health_status) == IF health_status = "unhealthy" THEN 1 ELSE 0

\* start_health_monitoring: "consecutive_failures=0 if ... == 'healthy' else 1"
FailuresAfter(health_status) == IF health_status = "healthy" THEN 0 ELSE 1

\* a statement of the store: it is executed, or it raises and the store
\* function logs the exception and returns
StoreOutcomes == {"executed", "raised"}

\* start_health_monitoring, one iteration: check_gpu_health, store_health_check
\* and update_gpu_status with the sample.  The sample is held by this task
\* alone and the UPDATE reads nothing, so the awaits in between are not
\* places where another task can make a difference.  A health_status of
\* NoneVal is an iteration in which check_gpu_health raised.
start_health_monitoring(health_status, store) ==
    /\ pc["health"] = "tick"
    /\ IF health_status = NoneVal
       THEN /\ pc' = [pc EXCEPT !["health"] = OnLoopError("health")]
            /\ UNCHANGED <<health_data, gpu_status>>
       ELSE /\ health_data' = health_status
            /\ gpu_status' = IF store = "executed"
                              THEN update_gpu_status(gpu_status, GpuId,
                                      [is_healthy |-> (health_status = "healthy"),
                                       consecutive_failures |-> FailuresAfter(health_status)])
                              ELSE gpu_status
            /\ UNCHANGED pc
    /\ UNCHANGED <<deployments, containers, now, runs>>
    /\ UNCHANGED <<batch, cmd, outcome, acked, term, todo, acks, finished, received,
                 notified, pushed, exit_code,
                 listed, gates, db_pool>>

\* ------------------------------------------------------ telemetry loops

\* the sample is written together with the slot's status
SamplePatch_WithStatus(metrics) == [gpu_utilization |-> metrics, status |-> "available"]

\* start_gpu_monitoring: the keyword arguments of update_gpu_status
SamplePatch(metrics) == [gpu_utilization |-> metrics]

\* start_gpu_monitoring, one iteration: collect_gpu_metrics, store_gpu_metrics
\* and update_gpu_status with the sample; metrics of NoneVal is an iteration in
\* which collect_gpu_metrics raised
start_gpu_monitoring(metrics, store) ==
    /\ pc["sample"] = "tick"
    /\ IF metrics = NoneVal
       THEN /\ pc' = [pc EXCEPT !["sample"] = OnLoopError("sample")]
            /\ UNCHANGED gpu_status
       ELSE /\ gpu_status' = IF store = "executed"
                              THEN update_gpu_status(gpu_status, GpuId, SamplePatch(metrics))
                              ELSE gpu_status
            /\ UNCHANGED pc
    /\ UNCHANGED <<deployments, containers, now, runs>>
    /\ UNCHANGED locals

\* start_heartbeat, one iteration: send_heartbeat posts to the server
start_heartbeat(sent) ==
    /\ pc["heartbeat"] = "tick"
    /\ pushed' = IF sent THEN "heartbeat" ELSE pushed
    /\ UNCHANGED <<gpu_status, deployments, containers, now, pc, runs>>
    /\ UNCHANGED <<batch, cmd, outcome, acked, term, todo, acks, finished, received,
                 health_data, notified, exit_code,
                 listed, gates, db_pool>>

\* start_metrics_push, one iteration: the slot row is read, push_metrics posts
start_metrics_push(sent) ==
    /\ pc["metrics_push"] = "tick"
    /\ pushed' = IF sent THEN "metrics" ELSE pushed
    /\ UNCHANGED <<gpu_status, deployments, containers, now, pc, runs>>
    /\ UNCHANGED <<batch, cmd, outcome, acked, term, todo, acks, finished, received,
                 health_data, notified, exit_code,
                 listed, gates, db_pool>>

\* start_health_push, one iteration: the slot row is read and, "if gpu_status:",
\* push_health posts
start_health_push(sent) ==
    /\ pc["health_push"] = "tick"
    /\ pushed' = IF sent /\ db_pool # NoneVal /\ GpuId \in DOMAIN gpu_status
                   THEN "health" ELSE pushed
    /\ UNCHANGED <<gpu_status, deployments, containers, now, pc, runs>>
    /\ UNCHANGED <<batch, cmd, outcome, acked, term, todo, acks, finished, received,
                 health_data, notified, exit_code,
                 listed, gates, db_pool>>

\* --------------------------------------------------------- command loop

\* start_command_polling: poll_commands returned a non-empty list
poll_commands(b) ==
    /\ pc["cmd"] = "poll"
    /\ received + Len(b) <= MaxCommands
    /\ received' = received + Len(b)
    /\ listed' = b
    /\ batch' = b
    /\ pc' = [pc EXCEPT !["cmd"] = "next"]
    /\ UNCHANGED <<gpu_status, deployments, containers, now, runs>>
    /\ UNCHANGED <<cmd, outcome, acked, term, todo, acks, finished,
                 health_data, notified, pushed, exit_code, gates, db_pool>>

\* start_command_polling: the for loop is over, sleep until the next poll
poll_sleep ==
    /\ pc["cmd"] = "next"
    /\ batch = <<>>
    /\ pc' = [pc EXCEPT !["cmd"] = "poll"]
    /\ UNCHANGED <<gpu_status, deployments, containers, now, runs>>
    /\ UNCHANGED locals

\* a command of a type the agent does not know is handed to the deploy path
Handler_DeployByDefault(command_type) ==
    IF command_type = "terminate" THEN "terminate" ELSE "deploy"

\* process_command: the if / elif / else on command_type
Handler(command_type) ==
    IF command_type = "deploy" THEN "deploy"
    ELSE IF command_type = "terminate" THEN "terminate"
    ELSE "unknown"

\* the commands of a poll are started without waiting for the one before
ProcessCommandReturned_NotAwaited(p) == p \notin {"off", "poll"}

\* start_command_polling: "await process_command(...)", the for loop goes on
\* when the call has returned
ProcessCommandReturned(p) == p = "next"

\* the for loop takes the commands from the end of the list
NextCommand_FromTheEnd(commands) == Len(commands)

\* start_command_polling: "for command in commands", the position of the
\* command the loop takes among those it has not taken yet
NextCommand(commands) == 1

\* the commands the for loop has not taken yet once it took the one at i
Remaining(commands, i) ==
    [j \in 1..(Len(commands) - 1) |-> IF j < i THEN commands[j] ELSE commands[j + 1]]

\* process_command up to the dispatch on command_type
process_command ==
    /\ ProcessCommandReturned(pc["cmd"])
    /\ batch # <<>>
    /\ LET command == batch[NextCommand(batch)]
       IN /\ cmd' = command
          /\ batch' = Remaining(batch, NextCommand(batch))
          /\ listed' = IF Len(batch) = 1 THEN <<>> ELSE listed
          /\ acked' = FALSE
          /\ gates' = "none"
          /\ IF Handler(command.command_type) = "deploy"
             THEN /\ pc' = [pc EXCEPT !["cmd"] = "d_check"]
                  /\ outcome' = "none"
                  /\ UNCHANGED term
             ELSE IF Handler(command.command_type) = "terminate"
             THEN /\ pc' = [pc EXCEPT !["cmd"] = "t_runtime"]
                  /\ outcome' = "none"
                  /\ term' = [term EXCEPT !["cmd"] =
                                [deployment_id |-> command.deployment_id,
                                 container_id |-> NoneVal,
                                 reason |-> command.reason,
                                 again |-> command.deployment_id \in finished]]
             ELSE /\ pc' = [pc EXCEPT !["cmd"] = "ack"]
                  /\ outcome' = "unknown"
                  /\ UNCHANGED term
    /\ UNCHANGED <<gpu_status, deployments, containers, now, runs>>
    /\ UNCHANGED <<todo, acks, finished, received,
                 health_data, notified, pushed, exit_code, db_pool>>

\* the acknowledgement placed at the end of the try block instead of in finally
AckIsSent_OnlyOnSuccess(command_id, how) == command_id # NoneVal /\ how \in {"ok", "unknown"}

\* process_command, the finally clause: "if command_id:"
AckIsSent(command_id, how) == command_id # NoneVal

\* the exception of a handler leaves process_command and ends the for loop
RestOfReply_DroppedOnFailure(commands, how) ==
    IF how \in {"ok", "unknown"} THEN commands ELSE <<>>

\* process_command, "except Exception as e: logger.error(...)": the exception
\* of a handler stays in process_command, and the for loop of
\* start_command_polling still has the commands it has not taken
RestOfReply(commands, how) == commands

\* process_command, the finally clause, and the return to the for loop
acknowledge_command ==
    /\ pc["cmd"] = "ack"
    /\ IF AckIsSent(cmd.command_id, outcome)
       THEN /\ acks' = [acks EXCEPT ![cmd.command_id] = @ + 1]
            /\ acked' = TRUE
       ELSE UNCHANGED <<acks, acked>>
    /\ batch' = RestOfReply(batch, outcome)
    /\ listed' = IF RestOfReply(batch, outcome) = <<>> THEN <<>> ELSE listed
    /\ pc' = [pc EXCEPT !["cmd"] = "next"]
    /\ UNCHANGED <<gpu_status, deployments, containers, now, runs>>
    /\ UNCHANGED <<cmd, outcome, term, todo, finished, received,
                 health_data, notified, pushed, exit_code, gates, db_pool>>

\* ----------------------------------------------------- deployment engine

\* deploy_container, step 1: the checks on the slot row that was read; the
\* result is "pass" or the message of the exception raised
ValidateGpu(table) ==
    IF db_pool = NoneVal \/ GpuId \notin DOMAIN table THEN "GPU status not found"
    ELSE IF table[GpuId].status # "available" THEN "GPU not available"
    ELSE IF ~table[GpuId].is_healthy THEN "GPU is not healthy"
    ELSE IF table[GpuId].current_deployment_id # NoneVal THEN "GPU is already in use"
    ELSE "pass"

\* deploy_container, step 1
deploy_check ==
    /\ pc["cmd"] = "d_check"
    /\ IF ValidateGpu(gpu_status) = "pass"
       THEN /\ pc' = [pc EXCEPT !["cmd"] = "d_create"]
            /\ UNCHANGED outcome
       ELSE /\ pc' = [pc EXCEPT !["cmd"] = "c_runtime"]
            /\ outcome' = ValidateGpu(gpu_status)
    /\ UNCHANGED <<gpu_status, deployments, containers, now, runs>>
    /\ UNCHANGED <<batch, cmd, acked, term, todo, acks, finished, received,
                 health_data, notified, pushed, exit_code,
                 listed, gates, db_pool>>

\* deploy_container, step 2: INSERT INTO deployments; create_deployment raises
\* without a pool and on a row with the same id
deploy_create ==
    /\ pc["cmd"] = "d_create"
    /\ IF db_pool = NoneVal \/ cmd.command_id \in DOMAIN deployments
       THEN /\ pc' = [pc EXCEPT !["cmd"] = "c_runtime"]
            /\ outcome' = IF db_pool = NoneVal THEN "Database not initialized"
                           ELSE "duplicate key"
            /\ UNCHANGED deployments
       ELSE /\ deployments' = create_deployment(deployments,
                   [deployment_id |-> cmd.command_id, status |-> "deploying",
                    start_time |-> now, duration_minutes |-> cmd.duration_minutes,
                    ssh_port |-> ConfigPorts.ssh,
                    rental_port_1 |-> ConfigPorts.rental_port_1,
                    rental_port_2 |-> ConfigPorts.rental_port_2])
            /\ pc' = [pc EXCEPT !["cmd"] = "d_busy"]
            /\ UNCHANGED outcome
    /\ UNCHANGED <<gpu_status, containers, now, runs>>
    /\ UNCHANGED <<batch, cmd, acked, term, todo, acks, finished, received,
                 health_data, notified, pushed, exit_code,
                 listed, gates, db_pool>>

\* deploy_container, step 2: the slot is marked busy, unless the UPDATE raises
\* and update_gpu_status logs the exception
deploy_mark_busy(store) ==
    /\ pc["cmd"] = "d_busy"
    /\ gpu_status' = IF store = "executed"
                      THEN update_gpu_status(gpu_status, GpuId,
                              [status |-> "busy", current_deployment_id |-> cmd.command_id])
                      ELSE gpu_status
    /\ pc' = [pc EXCEPT !["cmd"] = "d_run"]
    /\ UNCHANGED <<deployments, containers, now, runs>>
    /\ UNCHANGED locals

\* deploy_container, steps 3 to 5: pull_docker_image and create_container up
\* to its asyncio.sleep; r is what the runtime does
deploy_pull_and_run(r, resolves) ==
    /\ pc["cmd"] = "d_run"
    /\ IF r = "ok" /\ cmd.command_id \notin DOMAIN containers
       THEN /\ containers' = [d \in DOMAIN containers \cup {cmd.command_id} |->
                                IF d = cmd.command_id
                                THEN [running |-> TRUE, byId |-> resolves]
                                ELSE containers[d]]
            /\ pc' = [pc EXCEPT !["cmd"] = "d_verify"]
            /\ UNCHANGED outcome
       ELSE /\ pc' = [pc EXCEPT !["cmd"] = "c_runtime"]
            /\ outcome' = IF r = "pull_fails" THEN "Docker pull failed"
                           ELSE "Container creation failed"
            /\ UNCHANGED containers
    /\ UNCHANGED <<gpu_status, deployments, now, runs>>
    /\ UNCHANGED <<batch, cmd, acked, term, todo, acks, finished, received,
                 health_data, notified, pushed, exit_code,
                 listed, gates, db_pool>>

\* verify_container_health: what the three checks find, "docker ps --filter
\* name=<id>", "docker exec <id> nvidia-smi" and netstat for the three ports
GateResults(d, gpu_ok, ports_ok) ==
    [container_running |-> PsFilterName(d),
     gpu_accessible |-> ResolveByDeploymentId(d) # {} /\ gpu_ok,
     ports_listening |-> ports_ok]

\* verify_container_health returns although a port is not listening
HealthGatesPass_PortsNotChecked(d, gpu_ok, ports_ok) ==
    /\ GateResults(d, gpu_ok, ports_ok).container_running
    /\ GateResults(d, gpu_ok, ports_ok).gpu_accessible

\* verify_container_health returns: none of its checks raised
HealthGatesPass(d, gpu_ok, ports_ok) ==
    /\ GateResults(d, gpu_ok, ports_ok).container_running
    /\ GateResults(d, gpu_ok, ports_ok).gpu_accessible
    /\ GateResults(d, gpu_ok, ports_ok).ports_listening

\* deploy_container, steps 6 and 7: configure_container and
\* verify_container_health
deploy_configure_and_verify(gpu_ok, ports_ok) ==
    /\ pc["cmd"] = "d_verify"
    /\ gates' = IF \A g \in DOMAIN GateResults(cmd.command_id, gpu_ok, ports_ok) :
                       GateResults(cmd.command_id, gpu_ok, ports_ok)[g]
                THEN "passed" ELSE "failed"
    /\ IF HealthGatesPass(cmd.command_id, gpu_ok, ports_ok)
       THEN /\ pc' = [pc EXCEPT !["cmd"] = "d_running"]
            /\ UNCHANGED outcome
       ELSE /\ pc' = [pc EXCEPT !["cmd"] = "c_runtime"]
            /\ outcome' = "health check failed"
    /\ UNCHANGED <<gpu_status, deployments, containers, now, runs>>
    /\ UNCHANGED <<batch, cmd, acked, term, todo, acks, finished, received,
                 health_data, notified, pushed, exit_code, listed, db_pool>>

\* step 8 written without the container id create_container returned
RunningInfo_NoContainerId(d) ==
    [container_id |-> NoneVal, ssh_username |-> "gpu-user", ssh_password |-> "generated"]

\* deploy_container, step 8: the keyword arguments of update_deployment_status
RunningInfo(d) ==
    [container_id |-> ContainerIdOf(d), ssh_username |-> "gpu-user",
     ssh_password |-> "generated"]

\* deploy_container, steps 8 and 9: the row becomes running, unless the UPDATE
\* raises and update_deployment_status logs the exception; the server is told
deploy_persist_running(store) ==
    /\ pc["cmd"] = "d_running"
    /\ deployments' = IF store = "executed"
                      THEN update_deployment_status(deployments, cmd.command_id,
                              "running", RunningInfo(cmd.command_id))
                      ELSE deployments
    /\ notified' = notified \cup {cmd.command_id}
    /\ outcome' = "ok"
    /\ pc' = [pc EXCEPT !["cmd"] = "ack"]
    /\ UNCHANGED <<gpu_status, containers, now, runs>>
    /\ UNCHANGED <<batch, cmd, acked, term, todo, acks, finished, received,
                 health_data, pushed, exit_code,
                 listed, gates, db_pool>>

\* cleanup_failed_deployment: docker ps -a, docker stop, docker rm; a timeout
\* of one of them skips the store updates
cleanup_runtime(r) ==
    /\ pc["cmd"] = "c_runtime"
    /\ LET d == cmd.command_id
           target == IF PsAllFilterName(d) THEN ResolveByDeploymentId(d) ELSE {}
       IN /\ containers' = IF r = "ok" THEN Without(containers, target)
                           ELSE IF r = "rm_fails" THEN Stopped(containers, target)
                           ELSE containers
          /\ IF r = "timeout"
             THEN pc' = [pc EXCEPT !["cmd"] = "ack"]
             ELSE pc' = [pc EXCEPT !["cmd"] = "c_failed"]
    /\ UNCHANGED outcome
    /\ UNCHANGED <<gpu_status, deployments, now, runs>>
    /\ UNCHANGED <<batch, cmd, acked, term, todo, acks, finished, received,
                 health_data, notified, pushed, exit_code,
                 listed, gates, db_pool>>

\* cleanup_failed_deployment: the deployment row is marked failed
cleanup_mark_failed ==
    /\ pc["cmd"] = "c_failed"
    /\ deployments' = update_deployment_status(deployments, cmd.command_id,
                                               "failed", <<>>)
    /\ pc' = [pc EXCEPT !["cmd"] = "c_release"]
    /\ UNCHANGED <<gpu_status, containers, now, runs>>
    /\ UNCHANGED locals

\* cleanup_failed_deployment: the slot is released; deploy_container re-raises
cleanup_release ==
    /\ pc["cmd"] = "c_release"
    /\ gpu_status' = update_gpu_status(gpu_status, GpuId,
            [status |-> "available", current_deployment_id |-> NoneVal])
    /\ pc' = [pc EXCEPT !["cmd"] = "ack"]
    /\ UNCHANGED <<deployments, containers, now, runs>>
    /\ UNCHANGED locals

\* where a task goes on when terminate_deployment has returned
AfterTerminate(t) == IF t = "cmd" THEN "ack" ELSE "s_next"

\* the except clause marks the deployment failed
OnTerminateError_MarksFailed(table, deployment_id) ==
    update_deployment_status(table, deployment_id, "failed", <<>>)

\* terminate_deployment, the except clause: the exception is logged and raised
\* again, no row is written
OnTerminateError(table, deployment_id) == table

\* terminate_deployment: stop_container, remove_container, cleanup_gpu_resources
terminate_runtime(t, r) ==
    /\ t \in EngineTasks
    /\ pc[t] = "t_runtime"
    /\ LET target == IF term[t].container_id # NoneVal
                     THEN ResolveById(term[t].container_id) ELSE {}
           raises == /\ term[t].container_id # NoneVal
                     /\ \/ r # "ok"
                        \/ target = {}
       IN /\ containers' = IF term[t].container_id = NoneVal \/ r \in {"timeout", "stop_fails"}
                           THEN containers
                           ELSE IF r = "ok" THEN Without(containers, target)
                           ELSE Stopped(containers, target)
          /\ IF raises
             THEN /\ pc' = [pc EXCEPT ![t] = IF t = "cmd" THEN "ack" ELSE OnLoopError(t)]
                  /\ outcome' = IF t = "cmd" THEN "Failed to remove container" ELSE outcome
                  /\ todo' = IF t = "sweep" THEN [todo EXCEPT !["sweep"] = {}] ELSE todo
                  /\ deployments' = OnTerminateError(deployments, term[t].deployment_id)
             ELSE /\ pc' = [pc EXCEPT ![t] = "t_status"]
                  /\ UNCHANGED <<outcome, todo, deployments>>
    /\ UNCHANGED <<gpu_status, now, runs>>
    /\ UNCHANGED <<batch, cmd, acked, term, acks, finished, received,
                 health_data, notified, pushed, exit_code,
                 listed, gates, db_pool>>

\* terminate_deployment: the status the row is given
FinalStatus(reason) == IF reason = "user_requested" THEN "terminated" ELSE "completed"

\* terminate_deployment: the deployment row is updated
terminate_status(t) ==
    /\ t \in EngineTasks
    /\ pc[t] = "t_status"
    /\ deployments' = update_deployment_status(deployments, term[t].deployment_id,
                                               FinalStatus(term[t].reason), <<>>)
    /\ pc' = [pc EXCEPT ![t] = "t_release"]
    /\ UNCHANGED <<gpu_status, containers, now, runs>>
    /\ UNCHANGED locals

\* terminate_deployment: the slot is released, the server is notified
terminate_release(t) ==
    /\ t \in EngineTasks
    /\ pc[t] = "t_release"
    /\ gpu_status' = update_gpu_status(gpu_status, GpuId,
            [status |-> "available", current_deployment_id |-> NoneVal])
    /\ pc' = [pc EXCEPT ![t] = AfterTerminate(t)]
    /\ outcome' = IF t = "cmd" THEN "ok" ELSE outcome
    /\ finished' = finished \cup {term[t].deployment_id}
    /\ UNCHANGED <<deployments, containers, now, runs>>
    /\ UNCHANGED <<batch, cmd, acked, term, todo, acks, received,
                 health_data, notified, pushed, exit_code,
                 listed, gates, db_pool>>

\* ------------------------------------------------------ duration monitor

\* start_duration_monitor: get_expired_deployments returned rows
sweep_query ==
    /\ pc["sweep"] = "s_query"
    /\ get_expired_deployments # {}
    /\ todo' = [todo EXCEPT !["sweep"] = get_expired_deployments]
    /\ pc' = [pc EXCEPT !["sweep"] = "s_next"]
    /\ UNCHANGED <<gpu_status, deployments, containers, now, runs>>
    /\ UNCHANGED <<batch, cmd, outcome, acked, term, acks, finished, received,
                 health_data, notified, pushed, exit_code,
                 listed, gates, db_pool>>

\* start_duration_monitor: the next expired deployment is terminated
sweep_next(row) ==
    /\ pc["sweep"] = "s_next"
    /\ row \in todo["sweep"]
    /\ todo' = [todo EXCEPT !["sweep"] = @ \ {row}]
    /\ term' = [term EXCEPT !["sweep"] =
                  [deployment_id |-> row.deployment_id,
                   container_id |-> row.container_id,
                   reason |-> "duration_expired",
                   again |-> row.deployment_id \in finished]]
    /\ pc' = [pc EXCEPT !["sweep"] = "t_runtime"]
    /\ UNCHANGED <<gpu_status, deployments, containers, now, runs>>
    /\ UNCHANGED <<batch, cmd, outcome, acked, acks, finished, received,
                 health_data, notified, pushed, exit_code,
                 listed, gates, db_pool>>

\* start_duration_monitor: the for loop is over, sleep until the next sweep
sweep_sleep ==
    /\ pc["sweep"] = "s_next"
    /\ todo["sweep"] = {}
    /\ pc' = [pc EXCEPT !["sweep"] = "s_query"]
    /\ UNCHANGED <<gpu_status, deployments, containers, now, runs>>
    /\ UNCHANGED locals

\* ------------------------------------------------------------- shutdown

\* the command task is inside process_command, before its finally clause has
\* acknowledged the command
InProcessCommand(p) == p \notin {"off", "poll", "next"}

\* the tasks are cancelled: CancelledError is raised at the await a task is
\* suspended in; it is no Exception, so no except clause of the loops or of the
\* engine runs, and main goes on at position p
Cancelled(p) == [t \in Tasks |-> IF t = "main" THEN p ELSE "off"]

\* process_command, the finally clause while the task is cancelled
AcksOnCancel ==
    IF InProcessCommand(pc["cmd"]) /\ AckIsSent(cmd.command_id, "cancelled")
    THEN [acks EXCEPT ![cmd.command_id] = @ + 1]
    ELSE acks

\* SIGINT while start() sleeps in "while self.running".  asyncio.run either
\* cancels the main task alone (its SIGINT handler) or raises
\* KeyboardInterrupt out of the event loop and cancels every task; in both
\* cases main() goes on in its finally clause
interrupt(how) ==
    /\ pc["main"] = "running"
    /\ IF how = "all_tasks"
       THEN /\ pc' = Cancelled("stopping")
            /\ acks' = AcksOnCancel
            /\ acked' = (acked \/ AcksOnCancel # acks)
       ELSE /\ pc' = [pc EXCEPT !["main"] = "stopping"]
            /\ UNCHANGED <<acks, acked>>
    /\ UNCHANGED <<gpu_status, deployments, containers, now, runs>>
    /\ UNCHANGED <<batch, cmd, outcome, term, todo, finished, received,
                 health_data, notified, pushed, exit_code, listed, gates, db_pool>>

\* TAOLIEHostAgent.stop: running is set to False and cleanup_database closes
\* the pool; no task is cancelled or awaited
stop ==
    /\ pc["main"] = "stopping"
    /\ db_pool' = NoneVal
    /\ pc' = [pc EXCEPT !["main"] = "stopped"]
    /\ UNCHANGED <<gpu_status, deployments, containers, now, runs>>
    /\ UNCHANGED <<batch, cmd, outcome, acked, term, todo, acks, finished, received,
                 health_data, notified, pushed, exit_code, listed, gates>>

\* asyncio.run(main()): main() has returned, the tasks that are left are
\* cancelled and the process ends on the interrupt
cancel_all_tasks ==
    /\ pc["main"] = "stopped"
    /\ pc' = Cancelled("exited")
    /\ acks' = AcksOnCancel
    /\ acked' = (acked \/ AcksOnCancel # acks)
    /\ exit_code' = 130
    /\ UNCHANGED <<gpu_status, deployments, containers, now, runs>>
    /\ UNCHANGED <<batch, cmd, outcome, term, todo, finished, received,
                 health_data, notified, pushed, listed, gates, db_pool>>

\* ----------------------------------------------------------------- Next

RuntimeOutcomes == {"ok", "rm_fails", "stop_fails", "timeout"}

HealthStatuses == {"healthy", "warning", "unhealthy"}

\* the steps of the supervisor, the command loop and the deployment engine
Engine ==
    \/ \E i \in 1..(Len(StartupSteps) - 1), ok \in BOOLEAN : startup_step(i, ok)
    \/ register_gpu
    \/ \E ok \in BOOLEAN : register_with_server(ok)
    \/ cleanup_orphans_query
    \/ start_monitoring_threads
    \/ Tick
    \/ \E d \in Ids : ContainerExits(d)
    \/ poll_sleep
    \/ process_command
    \/ acknowledge_command
    \/ deploy_check
    \/ deploy_create
    \/ \E r \in {"ok", "pull_fails", "run_fails"}, resolves \in BOOLEAN :
            deploy_pull_and_run(r, resolves)
    \/ \E gpu_ok \in BOOLEAN, ports_ok \in BOOLEAN :
            deploy_configure_and_verify(gpu_ok, ports_ok)
    \/ \E r \in RuntimeOutcomes : cleanup_runtime(r)
    \/ cleanup_mark_failed
    \/ cleanup_release
    \/ \E t \in EngineTasks, r \in RuntimeOutcomes : terminate_runtime(t, r)
    \/ \E t \in EngineTasks : terminate_status(t)
    \/ \E t \in EngineTasks : terminate_release(t)
    \/ sweep_query
    \/ \E row \in todo["sweep"] : sweep_next(row)
    \/ sweep_sleep

\* the agent with a store whose statements are executed, over several runs;
\* the sample, heartbeat and push loops are left to SpecLoops: they write
\* no variable another task reads
Next ==
    \/ Engine
    \/ \E row \in todo["main"], r \in RuntimeOutcomes : cleanup_orphan_item(row, r)
    \/ \E b \in Batches : poll_commands(b)
    \/ deploy_mark_busy("executed")
    \/ deploy_persist_running("executed")
    \/ \E h \in HealthStatuses : start_health_monitoring(h, "executed")
    \/ Restart

Spec == Init /\ [][Next]_vars

\* one run of the agent with its seven loops and a store whose statements can
\* fail under the periodic loops; the store of a first run is empty, so the
\* reconciliation query returns no row and the for loop has no iteration
NextLoops ==
    \/ Engine
    \/ \E b \in DeployBatches : poll_commands(b)
    \/ deploy_mark_busy("executed")
    \/ deploy_persist_running("executed")
    \/ \E h \in HealthStatuses \cup {NoneVal}, store \in StoreOutcomes :
            start_health_monitoring(h, store)
    \/ \E m \in Metrics \cup {NoneVal}, store \in StoreOutcomes :
            start_gpu_monitoring(m, store)
    \/ \E sent \in BOOLEAN : start_heartbeat(sent)
    \/ \E sent \in BOOLEAN : start_metrics_push(sent)
    \/ \E sent \in BOOLEAN : start_health_push(sent)

SpecLoops == Init /\ [][NextLoops]_vars

\* one run of the agent with its command loop, health loop and duration
\* monitor, and a store whose UPDATE statements can fail where the store
\* function logs the exception and returns: in the health loop and in steps 2
\* and 8 of deploy_container
NextStoreFaults ==
    \/ Engine
    \/ \E b \in DeployBatches : poll_commands(b)
    \/ \E store \in StoreOutcomes : deploy_mark_busy(store)
    \/ \E store \in StoreOutcomes : deploy_persist_running(store)
    \/ \E h \in HealthStatuses, store \in StoreOutcomes : start_health_monitoring(h, store)

SpecStoreFaults == Init /\ [][NextStoreFaults]_vars

\* one run of the agent with its command loop, health loop and duration
\* monitor that is interrupted
NextShutdown ==
    \/ Engine
    \/ \E b \in Batches : poll_commands(b)
    \/ deploy_mark_busy("executed")
    \/ deploy_persist_running("executed")
    \/ \E h \in HealthStatuses : start_health_monitoring(h, "executed")
    \/ \E how \in {"main_task", "all_tasks"} : interrupt(how)
    \/ stop
    \/ cancel_all_tasks

SpecShutdown == Init /\ [][NextShutdown]_vars

TypeOK ==
    /\ DOMAIN gpu_status \subseteq {GpuId}
    /\ DOMAIN deployments \subseteq Ids
    /\ DOMAIN containers \subseteq Ids
    /\ now \in 0..MaxTime
    /\ received \in 0..MaxCommands
    /\ runs \in 1..MaxRuns
    /\ health_data \in HealthStatuses \cup {NoneVal}
    /\ notified \subseteq Ids
    /\ pushed \in {"none", "heartbeat", "metrics", "health"}
    /\ exit_code \in {NoExit, 1, 130}
    /\ listed \in Batches \cup {<<>>}
    /\ gates \in {"none", "passed", "failed"}
    /\ db_pool \in {NoneVal, Pool}
    /\ \A d \in DOMAIN deployments : deployments[d].status \in NonTerminal \cup Terminal

\* -------------------------------------------------------------- claims

Slot == gpu_status[GpuId]

DeployPcs == {"d_check", "d_create", "d_busy", "d_run", "d_verify", "d_running",
              "c_runtime", "c_failed", "c_release"}

CleanupPcs == {"c_runtime", "c_failed", "c_release"}

TerminatePcs == {"t_runtime", "t_status", "t_release"}

DispatchPcs == DeployPcs \cup TerminatePcs

\* the command task takes a step of the current run
CmdStep == pc'["cmd"] # pc["cmd"] /\ runs' = runs

\* engine task t takes a step of the current run
EngineStep(t) == pc'[t] # pc[t] /\ runs' = runs

NonTerminalDeployments == {d \in DOMAIN deployments : deployments[d].status \in NonTerminal}

\* C1: in every state the slot is busy if and only if some deployment that is
\* deploying, running or terminating has the id stored in the slot's
\* current_deployment_id.
C1_BusyIffActiveDeployment ==
    GpuId \in DOMAIN gpu_status =>
        (Slot.status = "busy" <=>
            \E d \in NonTerminalDeployments : d = Slot.current_deployment_id)

\* C2: in every state the slot is busy exactly when its current_deployment_id
\* is set; an available slot has no current_deployment_id.
C2_BusyIffCurrentDeploymentSet ==
    GpuId \in DOMAIN gpu_status =>
        (Slot.status = "busy" <=> Slot.current_deployment_id # NoneVal)

\* C3: at most one deployment in the store is deploying, running or terminating.
C3_AtMostOneNonTerminal == Cardinality(NonTerminalDeployments) <= 1

\* C4: no step changes a deployment row whose status is terminated, completed
\* or failed.
C4_TerminalRowsAreWriteOnce ==
    [][\A d \in DOMAIN deployments :
          deployments[d].status \in Terminal =>
              d \in DOMAIN deployments' /\ deployments'[d] = deployments[d]]_vars

\* C5: within one run every command id gets exactly one acknowledgement: never
\* a second one, and one once process_command has returned for it.
C5_ExactlyOneAckPerCommandId ==
    /\ \A c \in CommandIds : acks[c] <= 1
    /\ (pc["cmd"] \in {"next", "poll"} /\ cmd # NoCmd) => acks[cmd.command_id] = 1

\* C6: process_command acknowledges a command only after its dispatch has
\* finished, and it has acknowledged it whenever it returns: after a successful
\* dispatch, after deploy_container or terminate_deployment raised, and for an
\* unknown command type.
C6_AckAfterDispatchOnEveryExit ==
    /\ pc["cmd"] \in DispatchPcs \cup {"ack"} => ~acked
    /\ (pc["cmd"] \in {"next", "poll"} /\ cmd # NoCmd) => acked

\* C6, witness: process_command has returned with the acknowledgement sent for
\* a deploy command whose deploy_container raised.
C6_Witness ==
    /\ pc["cmd"] = "next"
    /\ cmd.command_type = "deploy"
    /\ outcome = "health check failed"
    /\ acked
    /\ acks[cmd.command_id] = 1

\* deployment d is running, holds the slot and its container runs
RunningOnSlot(d) ==
    /\ d \in DOMAIN deployments
    /\ deployments[d].status = "running"
    /\ GpuId \in DOMAIN gpu_status
    /\ Slot.status = "busy"
    /\ Slot.current_deployment_id = d
    /\ d \in DOMAIN containers
    /\ containers[d].running

\* C7: while a deploy command is processed whose deployment is running on the
\* slot (a replayed command), no step of the command task changes the
\* deployment row, the slot row or the container.
C7_ReplayedDeployChangesNothing ==
    [][(pc["cmd"] \in DeployPcs /\ CmdStep /\ RunningOnSlot(cmd.command_id)) =>
          /\ deployments' = deployments
          /\ gpu_status' = gpu_status
          /\ containers' = containers]_vars

\* C8: after deploy_container has rejected a command because the slot is
\* occupied, no step of the command task changes the slot row or a deployment
\* row, and the command is acknowledged when process_command returns.
C8_RejectedDeployMutatesNothing ==
    [][(pc["cmd"] \in CleanupPcs /\ CmdStep
          /\ outcome \in {"GPU not available", "GPU is already in use"}) =>
          /\ deployments' = deployments
          /\ gpu_status' = gpu_status
          /\ (pc'["cmd"] = "next" => acked')]_vars

\* C9: a terminate_deployment call for a deployment for which an earlier call
\* has returned changes neither that deployment's status nor the slot row.
C9_RepeatedTerminateChangesNothing ==
    [][\A t \in EngineTasks :
          (pc[t] \in TerminatePcs /\ EngineStep(t) /\ term[t].again) =>
              /\ gpu_status' = gpu_status
              /\ \A d \in DOMAIN deployments :
                    d = term[t].deployment_id =>
                        deployments'[d].status = deployments[d].status]_vars

\* C10: when deploy_container has returned without the deployment reaching
\* running, the runtime holds no container named deployment-<id> and the slot
\* is available.
C10_CompensationComplete ==
    (pc["cmd"] = "ack" /\ cmd.command_type = "deploy" /\ outcome # "ok") =>
        /\ cmd.command_id \notin DOMAIN containers
        /\ GpuId \in DOMAIN gpu_status => Slot.status = "available"

\* the exceptions deploy_container raises in steps 3 to 7
StepFailures == {"Docker pull failed", "Container creation failed", "health check failed"}

\* C11: when deploy_container has failed at the image pull, the container
\* creation, the configuration or the health gate, the deployment is failed,
\* the slot is available with no current_deployment_id and the server has no
\* success notification for the deployment; when process_command has returned
\* the command is acknowledged.
C11_FailedDeployIsCompensated ==
    (cmd.command_type = "deploy" /\ outcome \in StepFailures) =>
        /\ pc["cmd"] = "ack" =>
              /\ deployments[cmd.command_id].status = "failed"
              /\ Slot.status = "available"
              /\ Slot.current_deployment_id = NoneVal
              /\ cmd.command_id \notin notified
        /\ pc["cmd"] \in {"next", "poll"} => acked

\* the duration sweep's call of terminate_deployment ends in this step
SweepTerminateEnds ==
    /\ pc["sweep"] \in TerminatePcs
    /\ pc'["sweep"] \in {"s_next", "s_query"}
    /\ runs' = runs

\* the runtime failed to stop or remove a container that exists
RuntimeFaultInSweep ==
    /\ pc["sweep"] = "t_runtime"
    /\ pc'["sweep"] = "s_query"
    /\ ResolveById(term["sweep"].container_id) # {}

\* C12: when the duration sweep has dealt with a deployment it found running
\* and expired, and the runtime did what it was asked, the deployment is
\* completed, the slot is available and the container is removed.
C12_SweepTerminatesExpired ==
    [][(SweepTerminateEnds /\ ~RuntimeFaultInSweep) =>
          LET d == term["sweep"].deployment_id
          IN /\ deployments'[d].status = "completed"
             /\ gpu_status'[GpuId].status = "available"
             /\ d \notin DOMAIN containers']_vars

\* the columns a tenant needs to reach the container
HasAccessInfo(row) ==
    /\ row.container_id # NoneVal
    /\ row.ssh_username # NoneVal
    /\ row.ssh_password # NoneVal
    /\ row.ssh_port # NoneVal
    /\ row.rental_port_1 # NoneVal
    /\ row.rental_port_2 # NoneVal

\* C13: a deployment whose status is running has a container id, ssh
\* credentials and port assignments, and no step takes any of them away, so a
\* deployment that has been running keeps them.
C13_RunningHasAccessInfo ==
    /\ [](\A d \in DOMAIN deployments :
            deployments[d].status = "running" => HasAccessInfo(deployments[d]))
    /\ [][\A d \in DOMAIN deployments :
            HasAccessInfo(deployments[d]) =>
                d \in DOMAIN deployments' /\ HasAccessInfo(deployments'[d])]_vars

\* C13, witness: a deployment that was running and was ended by the duration
\* sweep still has its container id and credentials.
C13_Witness ==
    \E d \in DOMAIN deployments :
        /\ deployments[d].status = "completed"
        /\ d \in notified
        /\ HasAccessInfo(deployments[d])

\* C14: consecutive_failures decreases only in a step of the health loop whose
\* sample is healthy, and then to 0.
C14_FailuresDecreaseOnlyByReset ==
    [][(GpuId \in DOMAIN gpu_status
          /\ gpu_status'[GpuId].consecutive_failures < Slot.consecutive_failures) =>
              /\ gpu_status'[GpuId].consecutive_failures = 0
              /\ \E store \in StoreOutcomes : start_health_monitoring("healthy", store)]_vars

\* C14, witness: the health loop has stored a healthy sample and the counter
\* is 0 while a deployment that was rolled back shows that the agent has been
\* at work.
C14_Witness ==
    /\ GpuId \in DOMAIN gpu_status
    /\ health_data = "healthy"
    /\ Slot.is_healthy
    /\ Slot.consecutive_failures = 0
    /\ \E d \in DOMAIN deployments : deployments[d].status = "failed"

\* C15: a tick of the health loop whose patch is executed sets
\* consecutive_failures to 0 for a healthy sample and to the stored value plus
\* 1 for any other sample.
C15_FailuresCountSamples ==
    [][\A h \in HealthStatuses :
          start_health_monitoring(h, "executed") =>
              gpu_status'[GpuId].consecutive_failures =
                  IF h = "healthy" THEN 0 ELSE Slot.consecutive_failures + 1]_vars

\* a tick of the sample, health, heartbeat, metrics-push or health-push loop
TelemetryTick ==
    \/ \E h \in HealthStatuses \cup {NoneVal}, store \in StoreOutcomes :
            start_health_monitoring(h, store)
    \/ \E m \in Metrics \cup {NoneVal}, store \in StoreOutcomes :
            start_gpu_monitoring(m, store)
    \/ \E sent \in BOOLEAN : start_heartbeat(sent)
    \/ \E sent \in BOOLEAN : start_metrics_push(sent)
    \/ \E sent \in BOOLEAN : start_health_push(sent)

\* the step leaves the slot's status and current_deployment_id as they are
SlotOwnershipUnchanged ==
    /\ gpu_status'[GpuId].status = Slot.status
    /\ gpu_status'[GpuId].current_deployment_id = Slot.current_deployment_id

\* C16: no tick of a periodic loop changes the slot's status or
\* current_deployment_id, whether its store patch is executed or fails; a step
\* that changes one of them is a step of deploy_container or of
\* terminate_deployment.
C16_TelemetryLeavesSlotOwnership ==
    [][(GpuId \in DOMAIN gpu_status) =>
          /\ TelemetryTick => SlotOwnershipUnchanged
          /\ ~SlotOwnershipUnchanged =>
                (\E t \in EngineTasks : pc[t] \in DispatchPcs /\ EngineStep(t))]_vars

\* C16, witness: the sample loop and the health loop have written their
\* patches into the row of a slot that a deployment holds.
C16_Witness ==
    /\ GpuId \in DOMAIN gpu_status
    /\ Slot.status = "busy"
    /\ Slot.current_deployment_id # NoneVal
    /\ Slot.gpu_utilization # NoneVal
    /\ ~Slot.is_healthy
    /\ pushed = "health"

\* C17: while process_command works on a command that is neither a deploy nor
\* a terminate, the only step of the command task is the acknowledgement, and
\* it leaves the slot row and the deployment rows as they are.
C17_UnknownCommandAckedStoreUnchanged ==
    [][(CmdStep /\ pc["cmd"] \in DispatchPcs \cup {"ack"}
          /\ cmd.command_type \notin {"deploy", "terminate"}) =>
              /\ gpu_status' = gpu_status
              /\ deployments' = deployments
              /\ pc'["cmd"] = "next"
              /\ acked']_vars

\* C17, witness: process_command has returned for a command of an unknown
\* type, acknowledged.
C17_Witness ==
    /\ pc["cmd"] = "next"
    /\ cmd.command_type = "reboot"
    /\ outcome = "unknown"
    /\ acked
    /\ acks[cmd.command_id] = 1

\* C18: when the startup reconciliation has returned, every deployment that is
\* still deploying, running or terminating has a running container, and the
\* slot is available if no deployment is.
C18_ReconciliationComplete ==
    OrphansReturned =>
        /\ \A d \in NonTerminalDeployments :
              d \in DOMAIN containers /\ containers[d].running
        /\ NonTerminalDeployments = {} => Slot.status = "available"

\* the store holds a uuid for the slot
HoldsUuid == GpuId \in DOMAIN gpu_status /\ Slot.gpu_uuid # NoneVal

\* the supervisor takes a step of the current run
MainStep == pc'["main"] # pc["main"] /\ runs' = runs

StartupOrder == StartupSteps \o <<"r_post", "orphans", "orphan_loop", "running">>

\* position q follows position p in start()
Follows(p, q) ==
    \E i, j \in 1..Len(StartupOrder) :
        i < j /\ StartupOrder[i] = p /\ StartupOrder[j] = q

\* C20: the supervisor goes through the startup steps in their order, spawns
\* the loops only when the reconciliation has returned without an error, and
\* after a failed step exits with a non-zero code and no loop spawned.
C20_StartupOrderedAndAbortsOnFailure ==
    [][MainStep =>
          /\ pc'["main"] \notin {"exited", "orphans_error"} =>
                /\ Follows(pc["main"], pc'["main"])
                /\ pc["main"] # "orphans_error"
          /\ pc'["main"] = "exited" =>
                /\ exit_code' > 0
                /\ \A t \in Tasks \ {"main"} : pc'[t] = "off"]_vars

\* the status changes the lifecycle of a deployment allows
LifecycleTransitions ==
    {<<"deploying", "running">>, <<"running", "terminating">>,
     <<"terminating", "terminated">>, <<"terminating", "failed">>}

\* C21: every change of a deployment's stored status goes along deploying ->
\* running -> terminating -> {terminated, failed}; a write that asks for
\* another change leaves the row as it is.
C21_StatusChangesFollowLifecycle ==
    [][\A d \in DOMAIN deployments :
          /\ d \in DOMAIN deployments'
          /\ deployments'[d].status # deployments[d].status =>
                <<deployments[d].status, deployments'[d].status>> \in LifecycleTransitions]_vars

\* terminate_deployment of task t has made its runtime calls and is at one of
\* its two store statements
InTerminate(t) == pc[t] \in {"t_status", "t_release"}

\* C22: deploy_container is entered only when no deploy_container call is in
\* progress: the command task is at the head of its for loop, not inside a
\* deploy.
C22_OneDeployAtATime ==
    [][(CmdStep /\ pc'["cmd"] = "d_check") =>
          /\ pc["cmd"] \notin DeployPcs
          /\ pc["cmd"] = "next"]_vars

\* C22, witness: the deploy of a second command is in progress after the
\* deploy of the first command has returned and was acknowledged.
C22_Witness ==
    /\ pc["cmd"] \in DeployPcs \ {"d_check"}
    /\ cmd.command_id = "d2"
    /\ acks["d1"] = 1
    /\ "d1" \in DOMAIN deployments

\* C23: the duration sweep and the command loop are never both inside
\* terminate_deployment, and the sweep is never inside terminate_deployment
\* while deploy_container is in progress.
C23_OneTerminateAtATime ==
    /\ ~(InTerminate("sweep") /\ InTerminate("cmd"))
    /\ ~(InTerminate("sweep") /\ pc["cmd"] \in DeployPcs)

\* C24: when the command loop takes a command whose id was dispatched and
\* acknowledged earlier in this run, it calls neither deploy_container nor
\* terminate_deployment for it.
C24_NoSecondDispatchOfAnId ==
    [][(CmdStep /\ pc["cmd"] = "next" /\ pc'["cmd"] # "poll"
          /\ acks[cmd'.command_id] >= 1) =>
              pc'["cmd"] \notin DispatchPcs]_vars

\* the number of commands of the current reply the for loop has taken
Taken == Len(listed) - Len(batch)

\* C25: the commands of one reply are taken in the order the server listed
\* them, and a command is taken only when process_command has returned for
\* the one before it, with its acknowledgement sent.
C25_DispatchInServerOrder ==
    /\ [](batch # <<>> =>
            /\ Taken >= 0
            /\ batch = SubSeq(listed, Taken + 1, Len(listed))
            /\ (Taken > 0 => cmd = listed[Taken]))
    /\ [][(CmdStep /\ batch # <<>> /\ batch' # batch) =>
            /\ cmd' = listed[Taken + 1]
            /\ pc["cmd"] = "next"
            /\ (Taken > 0 => acked /\ acks[listed[Taken].command_id] >= 1)]_vars

\* C25, witness: of a reply with two different commands the first one was
\* dispatched and acknowledged and the second one waits.
C25_Witness ==
    /\ pc["cmd"] = "next"
    /\ Len(listed) = 2
    /\ listed[1] # listed[2]
    /\ batch = <<listed[2]>>
    /\ cmd = listed[1]
    /\ acked

\* C26: when deploy_container writes busy into the slot row, the row it
\* writes over is available, healthy and holds no deployment id.
C26_BusyOnlyFromFreeHealthySlot ==
    [][(CmdStep /\ pc["cmd"] = "d_busy") =>
          /\ Slot.status = "available"
          /\ Slot.is_healthy
          /\ Slot.current_deployment_id = NoneVal]_vars

\* C27: when terminate_deployment, called for a deployment that is running
\* and has its container, goes on from the runtime to the store, the container
\* is removed; the status it then writes is terminated for a user request and
\* completed for an expired duration.
C27_TerminateRemovesContainerFirst ==
    [][\A t \in EngineTasks :
          LET d == term[t].deployment_id
          IN /\ (EngineStep(t) /\ pc[t] = "t_runtime" /\ pc'[t] = "t_status"
                    /\ d \in DOMAIN deployments /\ deployments[d].status = "running"
                    /\ d \in DOMAIN containers) =>
                        d \notin DOMAIN containers'
             /\ (EngineStep(t) /\ pc[t] = "t_status" /\ d \in DOMAIN deployments) =>
                        deployments'[d].status =
                            IF term[t].reason = "user_requested" THEN "terminated"
                            ELSE "completed"]_vars

\* C28: a deployment's status becomes running only in step 8 of the
\* deploy_container call for that deployment, after its container was created
\* and the three health gates passed in that call.
C28_RunningOnlyAfterGatesPassed ==
    [][\A d \in DOMAIN deployments' :
          (/\ deployments'[d].status = "running"
           /\ (d \notin DOMAIN deployments \/ deployments[d].status # "running")) =>
              /\ CmdStep
              /\ pc["cmd"] = "d_running"
              /\ cmd.command_id = d
              /\ gates = "passed"
              /\ d \in DOMAIN containers]_vars

\* C28, witness: deploy_container has returned with the deployment running,
\* its container created and the gates passed.
C28_Witness ==
    /\ pc["cmd"] = "ack"
    /\ outcome = "ok"
    /\ gates = "passed"
    /\ deployments[cmd.command_id].status = "running"
    /\ cmd.command_id \in DOMAIN containers

\* C29: when the server gets the success notification for a deployment, the
\* stored status of the deployment is running, also when the UPDATE of step 8
\* has failed.
C29_NotifiedOnlyWhenStoredRunning ==
    [][\A d \in notified' \ notified :
          /\ d \in DOMAIN deployments'
          /\ deployments'[d].status = "running"]_vars

\* the deployments that are deploying or running and past their duration
ExpiredActive ==
    {d \in DOMAIN deployments :
        /\ deployments[d].status \in {"deploying", "running"}
        /\ now >= deployments[d].start_time + deployments[d].duration_minutes}

\* C30: get_expired_deployments returns the deployments that are deploying or
\* running and past their duration.
C30_ExpiredQueryCoversDeploying ==
    GpuId \in DOMAIN gpu_status =>
        {row.deployment_id : row \in get_expired_deployments} = ExpiredActive

\* the agent holds a terminate request for deployment d that it has not
\* dispatched yet
PendingTerminate(d) ==
    \E i \in DOMAIN batch : /\ batch[i].command_type = "terminate"
                            /\ batch[i].deployment_id = d

\* the positions of deploy_container after its steps 2, 5 and 7
Checkpoints == {"d_run", "d_verify", "d_running"}

\* C31: when a terminate request for the deployment that is being deployed
\* has been issued, deploy_container stops at its next checkpoint and turns to
\* compensation; the deployment does not become running.
C31_TerminateCancelsDeploy ==
    [][(/\ CmdStep
        /\ pc["cmd"] \in Checkpoints
        /\ PendingTerminate(cmd.command_id)) =>
            /\ pc'["cmd"] = "c_runtime"
            /\ deployments'[cmd.command_id].status # "running"]_vars

\* C32: an exception inside an iteration of a loop does not end the loop:
\* while the supervisor runs, each of the seven loops is at its entry, ready
\* for its next iteration, or inside an iteration.
C32_LoopsSurviveIterationErrors ==
    pc["main"] = "running" => \A t \in Tasks \ {"main"} : pc[t] # "off"

\* C32, witness: an iteration of the duration monitor has raised in
\* terminate_deployment, the loops go on: the monitor is back at its query
\* with the deployment still to terminate, and a later iteration of the
\* sample loop has stored its sample.
C32_Witness ==
    /\ pc["main"] = "running"
    /\ pc["sweep"] = "s_query"
    /\ term["sweep"].deployment_id \in DOMAIN deployments
    /\ deployments[term["sweep"].deployment_id].status = "running"
    /\ term["sweep"].deployment_id \notin finished
    /\ Slot.gpu_utilization # NoneVal
    /\ pc["sample"] = "tick"

\* a step of a loop or of the engine, as opposed to the supervisor, the clock
\* and the runtime
TaskStep ==
    \/ \E t \in Tasks \ {"main"} : pc'[t] # pc[t] /\ pc'[t] # "off" /\ pc[t] # "off"
    \/ health_data' # health_data
    \/ gpu_status' # gpu_status
    \/ deployments' # deployments

\* C33: on shutdown the loops are cancelled and the engine work in flight is
\* finished before the store is closed: the store is closed only when every
\* loop has ended, no dispatch is cut short, and no loop or engine step is
\* taken without the store.
C33_ShutdownDrainsBeforeClose ==
    [][/\ (db_pool # NoneVal /\ db_pool' = NoneVal /\ pc["main"] = "stopping") =>
              \A t \in Tasks \ {"main"} : pc[t] = "off"
       /\ (pc["main"] \in {"running", "stopping", "stopped"} /\ pc'["cmd"] = "off") =>
              pc["cmd"] \notin DispatchPcs
       /\ (pc["main"] \in {"running", "stopping", "stopped"} /\ pc'["sweep"] = "off") =>
              pc["sweep"] \notin TerminatePcs
       /\ (pc["main"] = "stopped" /\ TaskStep) => db_pool # NoneVal]_vars

\* C34: when cleanup_failed_deployment has returned, the deployment is marked
\* failed and the slot is available, whatever the runtime did.
C34_CompensationAlwaysUpdatesStore ==
    [][(/\ CmdStep
        /\ pc["cmd"] \in CleanupPcs
        /\ pc'["cmd"] = "ack"
        /\ cmd.command_id \in DOMAIN deployments) =>
            /\ deployments'[cmd.command_id].status = "failed"
            /\ gpu_status'[GpuId].status = "available"]_vars

\* C35: with an available and healthy slot, a deployment in a terminal state
\* and none that is not, the check of step 1 passes for a deploy command with
\* a new id.
C35_SlotReusableAfterTerminal ==
    [][(/\ CmdStep
        /\ pc["cmd"] = "d_check"
        /\ Slot.status = "available"
        /\ Slot.is_healthy
        /\ cmd.command_id \notin DOMAIN deployments
        /\ NonTerminalDeployments = {}
        /\ \E d \in DOMAIN deployments : deployments[d].status \in Terminal) =>
            pc'["cmd"] = "d_create"]_vars

\* C36: while the slot is available, no container the agent started is
\* running.
C36_AvailableSlotHasNoRunningContainer ==
    (GpuId \in DOMAIN gpu_status /\ Slot.status = "available") =>
        \A d \in DOMAIN containers : ~containers[d].running

\* C37: a terminate command for a deployment the store does not know, or for
\* one that is not the slot's current deployment, leaves the slot row and the
\* status of every other deployment as they are.
C37_ForeignTerminateLeavesSlot ==
    [][(/\ CmdStep
        /\ pc["cmd"] \in TerminatePcs
        /\ cmd.command_type = "terminate"
        /\ \/ cmd.deployment_id \notin DOMAIN deployments
           \/ cmd.deployment_id # Slot.current_deployment_id) =>
            /\ gpu_status' = gpu_status
            /\ \A d \in DOMAIN deployments \ {cmd.deployment_id} :
                   deployments'[d].status = deployments[d].status]_vars

\* C38: when stop_container or remove_container raises in
\* terminate_deployment, the deployments table and the slot row stay as they
\* are; the duration monitor is back at its query, and the deployment, if it
\* is still running, is again among the rows the query returns.
C38_TerminateErrorLeavesStore ==
    [][\A t \in EngineTasks :
          (EngineStep(t) /\ pc[t] = "t_runtime" /\ pc'[t] # "t_status") =>
              /\ deployments' = deployments
              /\ gpu_status' = gpu_status
              /\ t = "sweep" =>
                    /\ pc'["sweep"] = "s_query"
                    /\ deployments[term[t].deployment_id].status = "running" =>
                          \E row \in get_expired_deployments :
                              row.deployment_id = term[t].deployment_id]_vars

\* C38, witness: terminate_deployment has raised in the duration monitor: the
\* deployment is still running, no terminate_deployment call has returned for
\* it, and the query returns it again.
C38_Witness ==
    /\ pc["sweep"] = "s_query"
    /\ term["sweep"].deployment_id \in DOMAIN deployments
    /\ deployments[term["sweep"].deployment_id].status = "running"
    /\ term["sweep"].deployment_id \notin finished
    /\ \E row \in get_expired_deployments :
           row.deployment_id = term["sweep"].deployment_id

\* C39: the dispatch of a command, failed or not, takes no command off the
\* reply: the commands not yet taken are still there when process_command
\* returns with the acknowledgement sent, and the loop polls again only when
\* it has taken them all.
C39_BatchSurvivesFailedCommand ==
    /\ [](pc["cmd"] = "poll" => batch = <<>>)
    /\ [][(CmdStep /\ pc["cmd"] \in DispatchPcs \cup {"ack"}) =>
             /\ batch' = batch
             /\ pc'["cmd"] = "next" => acked']_vars

\* C39, witness: the first command of a reply of two has failed and is
\* acknowledged, and the for loop still has the second one.
C39_Witness ==
    /\ pc["cmd"] = "next"
    /\ Len(listed) = 2
    /\ batch = <<listed[2]>>
    /\ cmd = listed[1]
    /\ acked
    /\ outcome \notin {"none", "ok", "unknown"}

\* deployment d is past its duration
Expired(d) == now >= deployments[d].start_time + deployments[d].duration_minutes

\* C40: the rows the duration monitor takes from its query are running and
\* expired; the deployment it terminates is expired; and when it releases the
\* slot, the slot is not held by another deployment that has not expired.
C40_SweepTerminatesOnlyExpired ==
    /\ [](pc["sweep"] \in TerminatePcs =>
             /\ term["sweep"].deployment_id \in DOMAIN deployments
             /\ Expired(term["sweep"].deployment_id))
    /\ [][/\ (EngineStep("sweep") /\ pc["sweep"] = "s_query") =>
                \A row \in todo'["sweep"] :
                    /\ deployments[row.deployment_id].status = "running"
                    /\ Expired(row.deployment_id)
          /\ (EngineStep("sweep") /\ pc["sweep"] = "t_release") =>
                ~ \E d \in DOMAIN deployments \ {term["sweep"].deployment_id} :
                      /\ Slot.current_deployment_id = d
                      /\ deployments[d].status \in NonTerminal
                      /\ ~Expired(d)]_vars

====
